---- MODULE Spec2Model ----
(***************************************************************************)
(* The bounded-prefetch, in-order frame iterator `frames` of               *)
(* src/getfnative.py (lines 62-138), as a state machine of two threads:    *)
(* the consumer thread "c", which runs the generator body, and the worker  *)
(* thread "w", which runs one completion callback (_finished) at a time    *)
(* (callbacks serialise on `lock`, so at most one is past line 96).        *)
(* A future completes (Complete) independently of the lock; whether its    *)
(* callback runs on the worker or inline inside add_done_callback depends  *)
(* on whether completion came before or after registration.                *)
(***************************************************************************)
EXTENDS Integers, Sequences, FiniteSets, TLC

\* Bounds of the model.
MaxLen == 3        \* len(clip) ranges over 0..MaxLen
MaxThreads == 2    \* vs.core.num_threads ranges over 0..MaxThreads
MaxArg == 2        \* explicit prefetch / backlog arguments range over -1..MaxArg

Threads == {"c", "w"}

\* Optional[int]: None is the empty sequence, the integer n is <<n>>.
None == << >>
Some(n) == << n >>
OptInt(S) == {None} \cup {Some(n) : n \in S}

VARIABLES
    num_threads,   \* vs.core.num_threads
    argPrefetch,   \* the prefetch argument of frames (Optional[int])
    argBacklog,    \* the backlog argument of frames (Optional[int])
    clipLen,       \* len(clip)
    fails,         \* the frame numbers whose future ends with an exception
    prefetch,      \* prefetch after lines 63-64
    backlog,       \* backlog after lines 65-68
    enum_fut,      \* position of the enumerate iterator: next index to request
    finished,      \* line 72
    running,       \* line 73
    lock,          \* owner of the RLock: "none", "c" or "w"
    reorder,       \* keys of the dict reorder (line 75)
    sidx,          \* line 119
    fut,           \* state of each future: "unsub", "pending", "done"
    cbreg,         \* done-callback of each future: "no", "yes", "called"
    pc,            \* position of each thread
    depth,         \* number of _refill loops active on each thread's stack
    cur,           \* the future a thread is registering / being notified of
                   \* (the locals idx, fut and f; 0 while none is live)
    ret,           \* call site of the consumer's _refill: "init" (117), "loop" (131)
    exitKind,      \* how the generator body left the try block
    delivered      \* what the consumer has received, in order

vars == << num_threads, argPrefetch, argBacklog, clipLen, fails, prefetch, backlog,
           enum_fut, finished, running, lock, reorder, sidx, fut, cbreg, pc, depth,
           cur, ret, exitKind, delivered >>

inputs == << num_threads, argPrefetch, argBacklog, clipLen, fails >>

Frames == 0 .. (MaxLen + 1)

\* The value a successful future of frame i holds, and what the consumer is handed.
Value(i) == [kind |-> "value", idx |-> i]
Error(i) == [kind |-> "error", idx |-> i]

\* Lines 63-64 with the test "prefetch <= 0" left out: only None is defaulted.
EffPrefetch_NoneOnly(p, n) == IF p = None THEN n ELSE p[1]

\* Lines 63-64.
EffPrefetch(p, n) == IF p = None \/ p[1] <= 0 THEN n ELSE p[1]

\* Lines 65-66 alone: the elif of lines 67-68 left out.
EffBacklog_NoClamp(b, pf) == IF b = None \/ b[1] < 0 THEN pf * 3 ELSE b[1]

\* Lines 65-68 (pf is prefetch after lines 63-64).
EffBacklog(b, pf) ==
    IF b = None \/ b[1] < 0 THEN pf * 3
    ELSE IF b[1] < pf THEN pf
    ELSE b[1]

Init ==
    /\ num_threads \in 0 .. MaxThreads
    /\ argPrefetch \in OptInt(-1 .. MaxArg)
    /\ argBacklog \in OptInt(-1 .. MaxArg)
    /\ clipLen \in 0 .. MaxLen
    /\ fails \in SUBSET (0 .. clipLen - 1)
    /\ prefetch = 0
    /\ backlog = 0
    /\ enum_fut = 0
    /\ finished = FALSE
    /\ running = 0
    /\ lock = "none"
    /\ reorder = {}
    /\ sidx = 0
    /\ fut = [i \in Frames |-> "unsub"]
    /\ cbreg = [i \in Frames |-> "no"]
    /\ pc = [t \in Threads |-> IF t = "c" THEN "start" ELSE "idle"]
    /\ depth = [t \in Threads |-> 0]
    /\ cur = [t \in Threads |-> 0]
    /\ ret = "init"
    /\ exitKind = "none"
    /\ delivered = << >>

----------------------------------------------------------------------------
\* Return of _refill or _finished to its caller on thread t, with d loops of
\* _refill still active below it.  d >= 1: the caller chain is _finished <-
\* add_done_callback <- _request_next <- the while of line 114.  d = 0 on the
\* worker: the callback itself returns and line 96's lock is released.  d = 0 on
\* the consumer: _refill returns to line 117 or line 131.
ReturnTo(t, d) ==
    /\ depth' = [depth EXCEPT ![t] = d]
    /\ IF d >= 1
       THEN /\ pc' = [pc EXCEPT ![t] = "loop"]
            /\ lock' = lock
       ELSE IF t = "w"
       THEN /\ pc' = [pc EXCEPT ![t] = "idle"]
            /\ lock' = "none"
       ELSE /\ pc' = [pc EXCEPT ![t] = IF ret = "init" THEN "while" ELSE "adv"]
            /\ lock' = IF lock = "c" THEN "none" ELSE lock

\* Lines 62-75 and the call of line 117.
Start ==
    /\ pc["c"] = "start"
    /\ prefetch' = EffPrefetch(argPrefetch, num_threads)
    /\ backlog' = EffBacklog(argBacklog, prefetch')
    /\ pc' = [pc EXCEPT !["c"] = "rf0"]
    /\ ret' = "init"
    /\ UNCHANGED << inputs, enum_fut, finished, running, lock, reorder, sidx, fut,
                    cbreg, depth, cur, exitKind, delivered >>

\* Lines 107-111: the unlocked test of finished, then the (re-entrant) lock.
RefillEnter(t) ==
    /\ pc[t] = "rf0"
    /\ IF finished
       THEN ReturnTo(t, depth[t])
       ELSE /\ lock \in {"none", t}
            /\ lock' = t
            /\ depth' = [depth EXCEPT ![t] = @ + 1]
            /\ pc' = [pc EXCEPT ![t] = "loop"]
    /\ UNCHANGED << inputs, prefetch, backlog, enum_fut, finished, running, reorder,
                    sidx, fut, cbreg, cur, ret, exitKind, delivered >>

\* Line 114 with the concurrency test off by one.
MayAdmit_RunningLeq ==
    (~finished) /\ running <= prefetch /\ Cardinality(reorder) < backlog

\* Line 114 without the backlog test.
MayAdmit_NoBacklog == (~finished) /\ running < prefetch

\* The admission condition of line 114.
MayAdmit == (~finished) /\ running < prefetch /\ Cardinality(reorder) < backlog

\* Line 114: one test of the while condition; when false _refill returns.
RefillLoop(t) ==
    /\ pc[t] = "loop"
    /\ IF MayAdmit
       THEN /\ pc' = [pc EXCEPT ![t] = "rq0"]
            /\ UNCHANGED << depth, lock >>
       ELSE ReturnTo(t, depth[t] - 1)
    /\ UNCHANGED << inputs, prefetch, backlog, enum_fut, finished, running, reorder,
                    sidx, fut, cbreg, cur, ret, exitKind, delivered >>

\* Lines 79-81.
RequestNextCheck(t) ==
    /\ pc[t] = "rq0"
    /\ pc' = [pc EXCEPT ![t] = IF finished THEN "loop" ELSE "rq1"]
    /\ UNCHANGED << inputs, prefetch, backlog, enum_fut, finished, running, lock,
                    reorder, sidx, fut, cbreg, depth, cur, ret, exitKind, delivered >>

\* Lines 83-86 with the frame number computed from the cursor and the size of
\* the buffer instead of being drawn from the iterator.
RequestNextSubmit_FromCursor(t) ==
    /\ pc[t] = "rq1"
    /\ IF sidx + Cardinality(reorder) >= clipLen
       THEN /\ finished' = TRUE
            /\ pc' = [pc EXCEPT ![t] = "loop"]
            /\ UNCHANGED << enum_fut, fut, cur >>
       ELSE /\ fut' = [fut EXCEPT ![sidx + Cardinality(reorder)] = "pending"]
            /\ enum_fut' = sidx + Cardinality(reorder) + 1
            /\ cur' = [cur EXCEPT ![t] = sidx + Cardinality(reorder)]
            /\ pc' = [pc EXCEPT ![t] = "cnt"]
            /\ UNCHANGED finished
    /\ UNCHANGED << inputs, prefetch, backlog, running, lock, reorder, sidx, cbreg,
                    depth, ret, exitKind, delivered >>

\* Lines 83-86: next(enum_fut) either ends the source or calls get_frame_async
\* for the next frame number.
RequestNextSubmit(t) ==
    /\ pc[t] = "rq1"
    /\ IF enum_fut >= clipLen
       THEN /\ finished' = TRUE
            /\ pc' = [pc EXCEPT ![t] = "loop"]
            /\ UNCHANGED << enum_fut, fut, cur >>
       ELSE /\ fut' = [fut EXCEPT ![enum_fut] = "pending"]
            /\ enum_fut' = enum_fut + 1
            /\ cur' = [cur EXCEPT ![t] = enum_fut]
            /\ pc' = [pc EXCEPT ![t] = "cnt"]
            /\ UNCHANGED finished
    /\ UNCHANGED << inputs, prefetch, backlog, running, lock, reorder, sidx, cbreg,
                    depth, ret, exitKind, delivered >>

\* Line 88 left out: the frame is inserted and registered without being counted.
RequestNextCount_Missing(t) ==
    /\ pc[t] = "cnt"
    /\ pc' = [pc EXCEPT ![t] = "ins"]
    /\ UNCHANGED << inputs, prefetch, backlog, enum_fut, finished, running, lock,
                    reorder, sidx, fut, cbreg, depth, cur, ret, exitKind, delivered >>

\* Line 88.
RequestNextCount(t) ==
    /\ pc[t] = "cnt"
    /\ running' = running + 1
    /\ pc' = [pc EXCEPT ![t] = "ins"]
    /\ UNCHANGED << inputs, prefetch, backlog, enum_fut, finished, lock, reorder,
                    sidx, fut, cbreg, depth, cur, ret, exitKind, delivered >>

\* Lines 90-91.
RequestNextInsert(t) ==
    /\ pc[t] = "ins"
    /\ reorder' = reorder \cup {cur[t]}
    /\ pc' = [pc EXCEPT ![t] = "rq3"]
    /\ UNCHANGED << inputs, prefetch, backlog, enum_fut, finished, running, lock,
                    sidx, fut, cbreg, depth, cur, ret, exitKind, delivered >>

\* Line 92: add_done_callback runs the callback inline when the future is
\* already done, and stores it otherwise.
RequestNextRegister(t) ==
    /\ pc[t] = "rq3"
    /\ IF fut[cur[t]] = "done"
       THEN /\ cbreg' = [cbreg EXCEPT ![cur[t]] = "called"]
            /\ pc' = [pc EXCEPT ![t] = "fin"]
            /\ UNCHANGED cur
       ELSE /\ cbreg' = [cbreg EXCEPT ![cur[t]] = "yes"]
            /\ pc' = [pc EXCEPT ![t] = "loop"]
            /\ cur' = [cur EXCEPT ![t] = 0]
    /\ UNCHANGED << inputs, prefetch, backlog, enum_fut, finished, running, lock,
                    reorder, sidx, fut, depth, ret, exitKind, delivered >>

\* Lines 97-103 alone: the _refill() of line 105 left out.
FinishedBody_NoRefill(t) ==
    /\ pc[t] = "fin"
    /\ running' = running - 1
    /\ finished' = (finished \/ cur[t] \in fails)
    /\ ReturnTo(t, depth[t])
    /\ cur' = [cur EXCEPT ![t] = 0]
    /\ UNCHANGED << inputs, prefetch, backlog, enum_fut, reorder, sidx, fut, cbreg,
                    ret, exitKind, delivered >>

\* Lines 97-105 with the entry of a failed future dropped from the buffer.
FinishedBody_DropsFailed(t) ==
    /\ pc[t] = "fin"
    /\ running' = running - 1
    /\ IF finished
       THEN /\ ReturnTo(t, depth[t])
            /\ UNCHANGED << finished, reorder >>
       ELSE IF cur[t] \in fails
       THEN /\ finished' = TRUE
            /\ reorder' = reorder \ {cur[t]}
            /\ ReturnTo(t, depth[t])
       ELSE /\ pc' = [pc EXCEPT ![t] = "rf0"]
            /\ UNCHANGED << finished, depth, lock, reorder >>
    /\ cur' = [cur EXCEPT ![t] = 0]
    /\ UNCHANGED << inputs, prefetch, backlog, enum_fut, sidx, fut, cbreg,
                    ret, exitKind, delivered >>

\* Lines 98-105 alone: the decrement of line 97 left out.
FinishedBody_NoDecrement(t) ==
    /\ pc[t] = "fin"
    /\ IF finished
       THEN /\ ReturnTo(t, depth[t])
            /\ UNCHANGED finished
       ELSE IF cur[t] \in fails
       THEN /\ finished' = TRUE
            /\ ReturnTo(t, depth[t])
       ELSE /\ pc' = [pc EXCEPT ![t] = "rf0"]
            /\ UNCHANGED << finished, depth, lock >>
    /\ cur' = [cur EXCEPT ![t] = 0]
    /\ UNCHANGED << inputs, prefetch, backlog, enum_fut, running, reorder, sidx, fut,
                    cbreg, ret, exitKind, delivered >>

\* Lines 97-105, the body of _finished under the lock.
FinishedBody(t) ==
    /\ pc[t] = "fin"
    /\ running' = running - 1
    /\ IF finished
       THEN /\ ReturnTo(t, depth[t])
            /\ UNCHANGED finished
       ELSE IF cur[t] \in fails
       THEN /\ finished' = TRUE
            /\ ReturnTo(t, depth[t])
       ELSE /\ pc' = [pc EXCEPT ![t] = "rf0"]
            /\ UNCHANGED << finished, depth, lock >>
    /\ cur' = [cur EXCEPT ![t] = 0]
    /\ UNCHANGED << inputs, prefetch, backlog, enum_fut, reorder, sidx, fut, cbreg,
                    ret, exitKind, delivered >>

\* The work source finishes frame i (set_result / set_exception of its future).
Complete(i) ==
    /\ fut[i] = "pending"
    /\ fut' = [fut EXCEPT ![i] = "done"]
    /\ UNCHANGED << inputs, prefetch, backlog, enum_fut, finished, running, lock,
                    reorder, sidx, cbreg, pc, depth, cur, ret, exitKind, delivered >>

\* Lines 94-96: a worker invokes the stored callback of a done future and takes
\* the lock.
FinishedEnter(i) ==
    /\ pc["w"] = "idle"
    /\ fut[i] = "done"
    /\ cbreg[i] = "yes"
    /\ lock = "none"
    /\ lock' = "w"
    /\ cbreg' = [cbreg EXCEPT ![i] = "called"]
    /\ cur' = [cur EXCEPT !["w"] = i]
    /\ pc' = [pc EXCEPT !["w"] = "fin"]
    /\ UNCHANGED << inputs, prefetch, backlog, enum_fut, finished, running, reorder,
                    sidx, fut, depth, ret, exitKind, delivered >>

----------------------------------------------------------------------------
\* Line 121 without the test of the buffer.
KeepGoing_NoBuffer == (~finished) \/ running > 0

\* The condition of the delivery loop, line 121.
KeepGoing == (~finished) \/ Cardinality(reorder) > 0 \/ running > 0

\* Line 121.
WhileTest ==
    /\ pc["c"] = "while"
    /\ IF KeepGoing
       THEN /\ pc' = [pc EXCEPT !["c"] = "chk"]
            /\ UNCHANGED exitKind
       ELSE /\ pc' = [pc EXCEPT !["c"] = "finally"]
            /\ exitKind' = "stop"
    /\ UNCHANGED << inputs, prefetch, backlog, enum_fut, finished, running, lock,
                    reorder, sidx, fut, cbreg, depth, cur, ret, delivered >>

\* Lines 122-124: spin while the cursor's entry is absent.
Lookup ==
    /\ pc["c"] = "chk"
    /\ pc' = [pc EXCEPT !["c"] = IF sidx \notin reorder THEN "while" ELSE "get"]
    /\ UNCHANGED << inputs, prefetch, backlog, enum_fut, finished, running, lock,
                    reorder, sidx, fut, cbreg, depth, cur, ret, exitKind, delivered >>

\* Lines 127-131 with the exception of a failed future ignored: the entry is
\* deleted and handed on like a frame.
GetResult_NoRaise ==
    /\ pc["c"] = "get"
    /\ fut[sidx] = "done"
    /\ reorder' = reorder \ {sidx}
    /\ ret' = "loop"
    /\ pc' = [pc EXCEPT !["c"] = "rf0"]
    /\ UNCHANGED << inputs, prefetch, backlog, enum_fut, finished, running, lock,
                    sidx, fut, cbreg, depth, cur, exitKind, delivered >>

\* Lines 127-130 alone: the _refill() of line 131 left out.
GetResult_NoRefill ==
    /\ pc["c"] = "get"
    /\ fut[sidx] = "done"
    /\ IF sidx \in fails
       THEN /\ exitKind' = "error"
            /\ pc' = [pc EXCEPT !["c"] = "finally"]
            /\ UNCHANGED << reorder, ret >>
       ELSE /\ reorder' = reorder \ {sidx}
            /\ ret' = "loop"
            /\ pc' = [pc EXCEPT !["c"] = "adv"]
            /\ UNCHANGED exitKind
    /\ UNCHANGED << inputs, prefetch, backlog, enum_fut, finished, running, lock,
                    sidx, fut, cbreg, depth, cur, delivered >>

\* Lines 127-131 failing fast: the exception of any completed failed future in
\* the buffer is raised, not only that of the cursor's entry.
GetResult_FailFast ==
    /\ pc["c"] = "get"
    /\ fut[sidx] = "done"
    /\ IF \E i \in reorder : i \in fails /\ fut[i] = "done"
       THEN /\ exitKind' = "error"
            /\ pc' = [pc EXCEPT !["c"] = "finally"]
            /\ UNCHANGED << reorder, ret >>
       ELSE /\ reorder' = reorder \ {sidx}
            /\ ret' = "loop"
            /\ pc' = [pc EXCEPT !["c"] = "rf0"]
            /\ UNCHANGED exitKind
    /\ UNCHANGED << inputs, prefetch, backlog, enum_fut, finished, running, lock,
                    sidx, fut, cbreg, depth, cur, delivered >>

\* Lines 127-131 with the del of line 130 left out.
GetResult_NoDelete ==
    /\ pc["c"] = "get"
    /\ fut[sidx] = "done"
    /\ IF sidx \in fails
       THEN /\ exitKind' = "error"
            /\ pc' = [pc EXCEPT !["c"] = "finally"]
            /\ UNCHANGED ret
       ELSE /\ ret' = "loop"
            /\ pc' = [pc EXCEPT !["c"] = "rf0"]
            /\ UNCHANGED exitKind
    /\ UNCHANGED << inputs, prefetch, backlog, enum_fut, finished, running, lock,
                    reorder, sidx, fut, cbreg, depth, cur, delivered >>

\* Lines 127-131: fut.result() blocks until the future is done and raises its
\* exception; otherwise the entry is deleted and _refill is called.
GetResult ==
    /\ pc["c"] = "get"
    /\ fut[sidx] = "done"
    /\ IF sidx \in fails
       THEN /\ exitKind' = "error"
            /\ pc' = [pc EXCEPT !["c"] = "finally"]
            /\ UNCHANGED << reorder, ret >>
       ELSE /\ reorder' = reorder \ {sidx}
            /\ ret' = "loop"
            /\ pc' = [pc EXCEPT !["c"] = "rf0"]
            /\ UNCHANGED exitKind
    /\ UNCHANGED << inputs, prefetch, backlog, enum_fut, finished, running, lock,
                    sidx, fut, cbreg, depth, cur, delivered >>

\* Lines 133-134: the cursor advances and the frame is yielded.
Advance ==
    /\ pc["c"] = "adv"
    /\ delivered' = Append(delivered, Value(sidx))
    /\ sidx' = sidx + 1
    /\ pc' = [pc EXCEPT !["c"] = "yield"]
    /\ UNCHANGED << inputs, prefetch, backlog, enum_fut, finished, running, lock,
                    reorder, fut, cbreg, depth, cur, ret, exitKind >>

\* The consumer calls next() again.
Resume ==
    /\ pc["c"] = "yield"
    /\ pc' = [pc EXCEPT !["c"] = "while"]
    /\ UNCHANGED << inputs, prefetch, backlog, enum_fut, finished, running, lock,
                    reorder, sidx, fut, cbreg, depth, cur, ret, exitKind, delivered >>

\* The consumer closes or abandons the generator: GeneratorExit at line 134.
Close ==
    /\ pc["c"] = "yield"
    /\ exitKind' = "closed"
    /\ pc' = [pc EXCEPT !["c"] = "finally"]
    /\ UNCHANGED << inputs, prefetch, backlog, enum_fut, finished, running, lock,
                    reorder, sidx, fut, cbreg, depth, cur, ret, delivered >>

\* Lines 136-138 with the exception handed over as an item and the loop resumed.
Finally_Resumes ==
    /\ pc["c"] = "finally"
    /\ finished' = TRUE
    /\ IF exitKind = "error"
       THEN /\ delivered' = Append(delivered, Error(sidx))
            /\ reorder' = reorder \ {sidx}
            /\ sidx' = sidx + 1
            /\ exitKind' = "none"
            /\ pc' = [pc EXCEPT !["c"] = "while"]
       ELSE /\ pc' = [pc EXCEPT !["c"] = "exited"]
            /\ UNCHANGED << delivered, reorder, sidx, exitKind >>
    /\ UNCHANGED << inputs, prefetch, backlog, enum_fut, running, lock, fut, cbreg,
                    depth, cur, ret >>

\* Lines 136-138; a pending exception then reaches the consumer.
Finally ==
    /\ pc["c"] = "finally"
    /\ finished' = TRUE
    /\ delivered' = IF exitKind = "error" THEN Append(delivered, Error(sidx))
                    ELSE delivered
    /\ pc' = [pc EXCEPT !["c"] = "exited"]
    /\ UNCHANGED << inputs, prefetch, backlog, enum_fut, running, lock, reorder,
                    sidx, fut, cbreg, depth, cur, ret, exitKind >>

----------------------------------------------------------------------------
Admission(t) ==
    \/ RefillEnter(t)
    \/ RefillLoop(t)
    \/ RequestNextCheck(t)
    \/ RequestNextSubmit(t)
    \/ RequestNextCount(t)
    \/ RequestNextInsert(t)
    \/ RequestNextRegister(t)
    \/ FinishedBody(t)

Consumer ==
    \/ Start
    \/ Admission("c")
    \/ WhileTest
    \/ Lookup
    \/ GetResult
    \/ Advance
    \/ Resume
    \/ Finally

Worker ==
    \/ Admission("w")
    \/ \E i \in Frames : FinishedEnter(i)

Source == \E i \in Frames : Complete(i)

Next == Consumer \/ Close \/ Worker \/ Source

Spec == Init /\ [][Next]_vars

\* The consumer keeps pulling: it never closes or abandons the generator.
NextPull == Consumer \/ Worker \/ Source

\* The configurations of the fair runs: the prefetch argument is left out, so
\* that the effective prefetch is num_threads (0 .. MaxThreads), and the backlog
\* argument is left out or explicit and non-negative.  Every effective
\* (prefetch, backlog) pair of Init with prefetch <= MaxThreads arises.
LiveInit ==
    /\ Init
    /\ argPrefetch = None
    /\ (argBacklog = None \/ argBacklog[1] >= 0)

\* Every thread that can run eventually runs, and every frame that was
\* requested is eventually produced.
LiveSpec ==
    /\ LiveInit
    /\ [][NextPull]_vars
    /\ WF_vars(Consumer)
    /\ WF_vars(Worker)
    /\ WF_vars(Source)

----------------------------------------------------------------------------
Exited == pc["c"] = "exited"

\* The frames 0 .. n-1 as the consumer receives them.
ValuesUpTo(n) == [j \in 1 .. n |-> Value(j - 1)]

\* C1: when no frame fails, what the consumer has received is at every moment
\* the frames 0, 1, 2, ... in index order, each once, whatever the order of
\* completion; and when the loop ends by itself it has received all len(clip).
C1_InOrderDelivery ==
    fails = {} =>
        /\ Len(delivered) <= clipLen
        /\ delivered = ValuesUpTo(Len(delivered))
        /\ Len(delivered) = sidx
        /\ exitKind # "error"
        /\ (Exited /\ exitKind = "stop" => Len(delivered) = clipLen)

\* C1 witness: three frames, the last completed while the cursor was still
\* behind it, all delivered in order and the loop ended by exhaustion.
C1_Witness ==
    /\ fails = {}
    /\ clipLen = 3
    /\ prefetch >= 2
    /\ Exited /\ exitKind = "stop"
    /\ delivered = ValuesUpTo(3)

\* C2: the outstanding counter never exceeds the effective prefetch.
C2_ConcurrencyBound == pc["c"] # "start" => running <= prefetch

\* C2 witness: the window is full with two frames in flight.
C2_Witness == prefetch = 2 /\ running = 2

\* C3: the reorder buffer never holds more entries than the effective backlog.
C3_BacklogBound == pc["c"] # "start" => Cardinality(reorder) <= backlog

\* C3 witness: the buffer is full inside an admission pass that was re-entered
\* from a callback run inline by add_done_callback.
C3_Witness ==
    \E t \in Threads :
        /\ depth[t] >= 2
        /\ backlog >= 1
        /\ Cardinality(reorder) = backlog

\* What the consumer receives when frame k is the one that fails.
FailAt(k) == [j \in 1 .. k + 1 |-> IF j <= k THEN Value(j - 1) ELSE Error(k)]

\* C4: when exactly one frame k fails, the consumer receives the frames
\* 0 .. k-1 in order, then the error of k, raised with the cursor at k, and the
\* iteration is over; nothing above k is ever delivered.
C4_FailAtCursor ==
    \A k \in Frames :
        fails = {k} =>
            /\ Len(delivered) <= k + 1
            /\ delivered = SubSeq(FailAt(k), 1, Len(delivered))
            /\ (exitKind = "error" => sidx = k)
            /\ (Len(delivered) = k + 1 => Exited)
            /\ (Exited /\ exitKind # "closed" =>
                    exitKind = "error" /\ delivered = FailAt(k))

\* C4 witness: frame 1 failed, frame 2 had completed successfully, and the
\* consumer got frame 0 and the error only.
C4_Witness ==
    /\ fails = {1}
    /\ clipLen = 3
    /\ fut[2] = "done"
    /\ Exited
    /\ delivered = FailAt(1)

\* C5: once finished is set, no further frame is requested from the clip.
C5_NoPostTerminalAdmission == [][finished => enum_fut' = enum_fut]_vars

\* C6: whatever frames fail, the consumer receives successful frames
\* 0, 1, 2, ... and then at most one error, which is the last thing it receives.
C6_RunThenOneError ==
    \A j \in 1 .. Len(delivered) :
        IF delivered[j].kind = "value"
        THEN delivered[j] = Value(j - 1) /\ (j - 1) \notin fails
        ELSE j = Len(delivered) /\ Exited /\ delivered[j].idx \in fails

\* C6 witness: several frames fail, one that is not the lowest has completed,
\* and the consumer got a frame followed by one error.
C6_Witness ==
    /\ fails = {1, 2}
    /\ fut[2] = "done"
    /\ Exited
    /\ Len(delivered) = 2
    /\ delivered[2].kind = "error"

\* C7: once the cleanup block has run, the reorder buffer holds no entry.
C7_BufferReleasedOnExit == Exited => reorder = {}

\* C8: with no usable prefetch argument and zero worker threads the consumer
\* never gets into the delivery loop to look for an entry.
C8_UsageErrorAtStart ==
    ((argPrefetch = None \/ argPrefetch[1] <= 0) /\ num_threads = 0)
        => pc["c"] \notin {"chk", "get"}

\* C9: with prefetch >= 1, fair threads and a consumer that keeps pulling, the
\* iteration ends: by exhaustion after len(clip) frames when nothing fails,
\* with the error when a frame fails.
C9_Terminates ==
    (pc["c"] = "rf0" /\ ret = "init" /\ prefetch >= 1)
        ~> (/\ Exited
            /\ (fails = {} => exitKind = "stop" /\ Len(delivered) = clipLen)
            /\ (fails # {} => exitKind = "error"))

\* C9 witness: every frame was taken, the last one before its completion
\* callback had run, so the loop is still waiting for the exhaustion of the
\* clip to be noticed by that callback.
C9_Witness ==
    /\ fails = {}
    /\ clipLen >= 2
    /\ Len(delivered) = clipLen
    /\ pc["c"] = "chk"
    /\ ~finished
    /\ running = 1
    /\ reorder = {}

\* C10: a backlog argument that is given, non-negative and below the effective
\* prefetch becomes the effective prefetch; one at or above it is kept.
C10_BacklogClamp ==
    (pc["c"] # "start" /\ argBacklog # None) =>
        (argBacklog[1] >= 0 =>
            backlog = IF argBacklog[1] < prefetch THEN prefetch ELSE argBacklog[1])

\* C10 witness: backlog 0 with prefetch 2 started as backlog 2.
C10_Witness ==
    /\ pc["c"] # "start"
    /\ argBacklog = Some(0)
    /\ prefetch = 2
    /\ backlog = 2

\* C11: a prefetch argument that is omitted or <= 0 becomes num_threads; a
\* backlog argument that is omitted or negative becomes three times the
\* effective prefetch, that is, the prefetch after its own default was applied.
C11_Defaults ==
    pc["c"] # "start" =>
        /\ ((argPrefetch = None \/ argPrefetch[1] <= 0) => prefetch = num_threads)
        /\ ((argBacklog = None \/ argBacklog[1] < 0) => backlog = 3 * prefetch)

\* C11 witness: prefetch 0 and backlog -1 with two worker threads started as
\* prefetch 2 and backlog 6.
C11_Witness ==
    /\ pc["c"] # "start"
    /\ argPrefetch = Some(0)
    /\ argBacklog = Some(-1)
    /\ num_threads = 2
    /\ prefetch = 2
    /\ backlog = 6

\* C12: get_frame_async is called for the frame numbers 0, 1, 2, ... in this
\* order without gaps, and never a second time for the same frame number,
\* whichever thread admits and however deeply the admission is re-entered.
C12_SubmissionOrder ==
    [][\A i \in Frames :
          /\ (fut[i] = "unsub" /\ fut'[i] # "unsub") =>
                /\ i = enum_fut
                /\ enum_fut' = i + 1
                /\ \A j \in 0 .. i - 1 : fut[j] # "unsub"
                /\ \A j \in Frames : j > i => fut'[j] = "unsub"
          /\ (fut[i] # "unsub" => fut'[i] # "unsub")
          /\ (fut[i] = "done" => fut'[i] = "done")
          /\ (enum_fut' # enum_fut => enum_fut' = enum_fut + 1)]_vars

\* C12 witness: the third frame has just been requested by an admission pass
\* re-entered from a callback that add_done_callback ran inline.
C12_Witness ==
    \E t \in Threads :
        /\ pc[t] = "cnt"
        /\ depth[t] >= 2
        /\ cur[t] = 2
        /\ enum_fut = 3

\* The positions of a thread inside _refill, _request_next and _finished.
AdmissionPcs == {"rf0", "loop", "rq0", "rq1", "cnt", "ins", "rq3", "fin"}

\* Thread t takes a step of the admission or notification code.
AdmissionStep(t) ==
    /\ pc[t] \in AdmissionPcs \/ (t = "w" /\ pc[t] = "idle")
    /\ << pc[t], depth[t] >> # << pc'[t], depth'[t] >>

\* C13: the body of _finished leaves the buffer, the cursor and everything
\* the consumer has received alone and takes one off running; when the future
\* failed it sets finished besides, and when finished was already set it
\* changes nothing else.  No step of a notification, the re-entered admission
\* included, removes or overwrites an entry of the buffer or moves the cursor.
C13_CompletionFrame ==
    [][\A t \in Threads :
          /\ (pc[t] = "fin" /\ pc'[t] # "fin") =>
                /\ running' = running - 1
                /\ reorder' = reorder
                /\ sidx' = sidx
                /\ delivered' = delivered
                /\ enum_fut' = enum_fut
                /\ fut' = fut
                /\ cbreg' = cbreg
                /\ finished' = (finished \/ cur[t] \in fails)
          /\ AdmissionStep(t) =>
                /\ reorder \subseteq reorder'
                /\ sidx' = sidx
                /\ delivered' = delivered
                /\ (pc[t] = "ins" => cur[t] \notin reorder)]_vars

\* C13 witness: a frame ahead of the cursor failed and its notification has
\* been processed: finished is set, its entry and the cursor's are still there.
C13_Witness ==
    \E i \in fails :
        /\ cbreg[i] = "called"
        /\ pc["w"] = "idle"
        /\ pc["c"] \in {"while", "chk", "get"}
        /\ finished
        /\ enum_fut < clipLen
        /\ sidx < i
        /\ {sidx, i} \subseteq reorder

\* A slot is free: admission is open, frames remain to be requested, and both
\* the window and the buffer have room.
SlotFree(n) ==
    /\ enum_fut = n
    /\ n < clipLen
    /\ ~finished
    /\ running < prefetch
    /\ Cardinality(reorder) < backlog

\* C14: a free slot is never lost.  From every state in which a slot is free
\* the next frame is eventually requested, unless finished is set first (by a
\* failure or by the consumer's own exit), whatever the interleaving of the
\* consumer's delete-then-refill with the completion callbacks.
C14_NoStall ==
    \A n \in 0 .. MaxLen : SlotFree(n) ~> (enum_fut > n \/ finished)

\* C14 as stated: a free slot always leads to a request.  The slot is taken in
\* states where no thread is between drawing a frame number (line 83) and
\* inserting it (line 91), so that the slot is not one just being filled.
C14_FreeSlotIsFilled ==
    \A n \in 0 .. MaxLen :
        (SlotFree(n) /\ \A t \in Threads : pc[t] \notin {"cnt", "ins"})
            ~> (enum_fut > n)

\* C14 witness: the consumer has deleted an entry and is about to refill while
\* a callback that took its unit off running is about to refill too: each side
\* sees the slot the other freed.
C14_Witness ==
    /\ SlotFree(enum_fut)
    /\ pc["c"] = "rf0"
    /\ ret = "loop"
    /\ pc["w"] = "rf0"
    /\ Cardinality(reorder) = backlog - 1

\* C15: whenever the consumer is at the lookup of line 122 the buffer is not
\* empty.  Stated for prefetch >= 1, so that it is not the start with zero
\* worker threads (C8) that decides it.
C15_LookupNonEmpty == (pc["c"] = "chk" /\ prefetch >= 1) => reorder # {}

\* The lowest failing frame number.
LowestFailing == CHOOSE k \in fails : \A j \in fails : k <= j

\* C16: when frames fail, what the consumer receives is at every moment a
\* beginning of: all frames below the lowest failing one, then that one's
\* error; and that is exactly what it has received when the iteration ends
\* without being closed, whichever failure was noticed first.
C16_LowestFailureWins ==
    fails # {} =>
        /\ Len(delivered) <= LowestFailing + 1
        /\ delivered = SubSeq(FailAt(LowestFailing), 1, Len(delivered))
        /\ (Exited /\ exitKind # "closed" => delivered = FailAt(LowestFailing))

\* C16 witness: frames 0 and 1 fail; the callback of frame 1 has run and no
\* further frame was requested, that of frame 0 has not run, and the consumer
\* got the error of frame 0.
C16_Witness ==
    /\ fails = {0, 1}
    /\ clipLen = 3
    /\ enum_fut = 2
    /\ cbreg[1] = "called"
    /\ cbreg[0] = "yes"
    /\ Exited
    /\ delivered = << Error(0) >>

\* Thread t is at position p with frame i as its local idx / f.
HasAt(t, p, i) == pc[t] = p /\ cur[t] = i

\* The frames counted in running: requested and counted (line 88), and the body
\* of their completion callback (line 97) has not run yet.
Counted ==
    {i \in 0 .. enum_fut - 1 :
        /\ ~ \E t \in Threads : HasAt(t, "cnt", i)
        /\ ~ (cbreg[i] = "called" /\ ~ \E t \in Threads : HasAt(t, "fin", i))}

BeingInserted == {i \in Frames : \E t \in Threads : HasAt(t, "cnt", i) \/ HasAt(t, "ins", i)}

\* C18 as stated: at every lookup of the cursor the keys of the buffer are
\* exactly the frame numbers from the cursor up to, not including, the next
\* one to be requested.
C18_KeysAreTheWindow == pc["c"] = "chk" => reorder = sidx .. enum_fut - 1

\* C18 amended: at every lookup the keys are that range without the frame a
\* callback has drawn and not yet inserted, which is the highest of the range;
\* and the cursor's entry is absent only when the buffer is empty.
C18_KeysAreTheWindowButInsert ==
    pc["c"] = "chk" =>
        /\ reorder = (sidx .. enum_fut - 1) \ BeingInserted
        /\ BeingInserted \subseteq {enum_fut - 1}
        /\ (sidx \notin reorder => reorder = {})

\* C18 witness: the consumer looks up the cursor while a callback has requested
\* the next frame and not yet inserted it.
C18_Witness ==
    /\ pc["c"] = "chk"
    /\ pc["w"] \in {"cnt", "ins"}
    /\ sidx \in reorder
    /\ enum_fut - 1 \notin reorder

\* C19: running is never negative.
C19_RunningNonNegative == running >= 0

\* C19 witness: a future was already done when its callback was registered, the
\* callback ran inline inside the admission pass and took running back to 0.
C19_Witness ==
    \E t \in Threads :
        /\ pc[t] = "rf0"
        /\ depth[t] >= 1
        /\ running = 0
        /\ enum_fut >= 1

====
